---- MODULE Spec2Model ----
(***************************************************************************)
(* ERateDataCollector (src/src/data_collection/fetch_erate_data.py): the   *)
(* filtered page fetch fetch_data, the multi-year pagination loop          *)
(* fetch_all_years, and get_summary_stats.                                 *)
(*                                                                         *)
(* Conventions.  An Optional[T] argument is None == <<>> or Some(v) ==     *)
(* <<v>>.  A piece of query text is a sequence of tokens (the words of the *)
(* Python string, split at single blanks); a literal token is built as the *)
(* f-string builds it (quotes included).  A table (DataFrame) of the fetch *)
(* path is the sequence of its rows, a row being <<funding year, index>>.  *)
(***************************************************************************)
EXTENDS Integers, Sequences, FiniteSets, TLC

\* ------------------------------------------------------------- bounds
\* Funding years are 0 .. MaxYear (small stand-ins for 2016 .. 2024; year 0
\* is kept because Python treats it as false).
MaxYear == 2
\* The server holds at most MaxRecs records per funding year.
MaxRecs == 3
\* batch_size / limit range over 1 .. MaxBatch.
MaxBatch == 3
\* The server never returns more than ServerMax rows for one request
\* ("max 50000 for SODA API"), scaled down; MaxBatch is above it on purpose.
ServerMax == 2
\* The tables handed to get_summary_stats have at most MaxRows rows.
MaxRows == 2

Years == 0 .. MaxYear

\* ------------------------------------------------------------ helpers
None == <<>>
Some(v) == <<v>>

Min(a, b) == IF a <= b THEN a ELSE b

RECURSIVE Flatten(_)
\* pd.concat(all_data, ignore_index=True): the rows of the pages, in order.
Flatten(pages) ==
    IF pages = <<>> THEN <<>> ELSE Head(pages) \o Flatten(Tail(pages))

\* Python truthiness of an Optional[int] / Optional[str] argument
\* (`if funding_year:`, `if state:`): None, 0 and '' are false.
TruthyInt(o) == o # None /\ o[1] # 0
TruthyStr(o) == o # None /\ o[1] # ""

\* ------------------------------------------------- fetch_data: the query
\* where_clauses, lines 70-76: one clause per truthy filter, in this order.
WhereClauses(funding_year, state, applicant_type) ==
    (IF TruthyInt(funding_year)
        THEN << <<"funding_year", "=", ToString(funding_year[1])>> >> ELSE <<>>)
    \o (IF TruthyStr(state)
        THEN << <<"state", "=", "'" \o state[1] \o "'">> >> ELSE <<>>)
    \o (IF TruthyStr(applicant_type)
        THEN << <<"applicant_type", "=", "'" \o applicant_type[1] \o "'">> >>
        ELSE <<>>)

RECURSIVE JoinAnd(_)
\* ' AND '.join(where_clauses), line 79.
JoinAnd(clauses) ==
    IF clauses = <<>> THEN <<>>
    ELSE IF Len(clauses) = 1 THEN clauses[1]
    ELSE clauses[1] \o <<"AND">> \o JoinAnd(Tail(clauses))

\* params, lines 63-79; "where" is None when the dictionary has no '$where'.
Params(funding_year, state, applicant_type, limit, offset) ==
    LET where_clauses == WhereClauses(funding_year, state, applicant_type)
    IN  [ limit  |-> limit,
          offset |-> offset,
          order  |-> <<"funding_year", "DESC">>,
          where  |-> IF where_clauses # <<>>
                        THEN Some(JoinAnd(where_clauses)) ELSE None ]

\* ------------------------------------------------------------- state
VARIABLES
    data,       \* the API's dataset: data[y] = number of records of funding year y
    pc,         \* where the caller's current call stands
    args,       \* the arguments of the call in progress
    year,       \* fetch_all_years: the loop variable `year`
    offset,     \* fetch_all_years: the local `offset`
    all_data,   \* fetch_all_years: the local list `all_data` (one entry per page)
    result,     \* the value returned to the caller (None until something returns)
    exc,        \* the exception that left the call (None when none did)
    requests,   \* history: every session.get issued, with what came back
    slept,      \* history: time.sleep ran since the last session.get
    df,         \* the caller's DataFrame, the object get_summary_stats is given
    df0,        \* history: that DataFrame as it was when the call was made
    stats,      \* the dictionary get_summary_stats returned
    dirs,       \* the file system: the directories that exist
    files,      \* the file system: per output path, the file's text (None: no file)
    files0,     \* history: the files as they were when save_data was called
    fsops,      \* history: the file-system calls save_data made, in order
    app_token,  \* history: the app_token the collector was constructed with
    session_headers  \* self.session.headers: the X-App-Token entry (None: no entry)

fetchVars == <<data, year, offset, all_data, result, exc, requests, slept>>
statsVars == <<df, df0, stats>>
fsVars == <<dirs, files, files0, fsops>>
objVars == <<app_token, session_headers>>
vars == <<pc, args, fetchVars, statsVars, fsVars, objVars>>

\* The tokens a collector is constructed with: none (the default), the
\* empty string, a token.
Tokens == {None, Some(""), Some("test_token")}

\* __init__, lines 37-40: the session's X-App-Token header is set when
\* app_token is truthy.
SessionHeaders(token) == IF TruthyStr(token) THEN Some(token[1]) ELSE None

\* Faulty variant: the request is sent without the session's headers.
RequestHeadersDropped(h) == None

\* self.session.get (line 83): a request carries the session's headers.
RequestHeaders(h) == h

\* ------------------------------------------- the remote API (environment)
\* The records the API holds for funding year y, in the API's order.
Rows(y) == [i \in 1 .. data[y] |-> <<y, i>>]

RECURSIVE RowsDesc(_)
\* All records in '$order': 'funding_year DESC' (years y, y-1, ..., 0).
RowsDesc(y) == IF y < 0 THEN <<>> ELSE Rows(y) \o RowsDesc(y - 1)

\* The funding year a '$where' text constrains, read back from its tokens;
\* None when the text is absent or names no funding_year clause.
YearFilter(where) ==
    IF where = None THEN None
    ELSE LET w == where[1]
             at == {i \in 1 .. Len(w) - 2 : w[i] = "funding_year" /\ w[i + 1] = "="}
         IN  IF at = {} THEN None
             ELSE LET lit == w[(CHOOSE i \in at : TRUE) + 2]
                  IN  IF \E y \in Years : ToString(y) = lit
                         THEN Some(CHOOSE y \in Years : ToString(y) = lit)
                         ELSE None

\* The JSON array answered to a successful request: the matching records at
\* positions [$offset, $offset + $limit), $limit capped at the API's maximum.
ServerResponse(params) ==
    LET yf   == YearFilter(params.where)
        rows == IF yf = None THEN RowsDesc(MaxYear) ELSE Rows(yf[1])
        lim  == Min(params.limit, ServerMax)
    IN  SubSeq(rows, params.offset + 1, Min(params.offset + lim, Len(rows)))

\* How one HTTP call can end: a 2xx answer, a 4xx/5xx answer, or no answer
\* (connection error, timeout after 30 s).
Outcomes == {"ok", "http_error", "network_error"}

\* -------------------------------------------- fetch_data: the HTTP call
\* Faulty variant: the failure is swallowed and an empty table answered.
OnRequestExceptionSwallow(e) == [exc |-> None, ret |-> Some(<<>>)]

\* except requests.exceptions.RequestException as e: log, raise (lines 92-94).
OnRequestException(e) == [exc |-> Some(e), ret |-> None]

\* fetch_data, lines 42-94: what was sent, and what the call gives back to
\* its caller: ret = Some(table) when it returns, exc = Some(error) when it
\* raises.  session.get raises on a network failure (line 83),
\* raise_for_status on a 4xx/5xx status (line 84).
FetchData(funding_year, state, applicant_type, limit, off, outcome) ==
    LET params  == Params(funding_year, state, applicant_type, limit, off)
        failure == IF outcome = "network_error" THEN Some("ConnectionError")
                   ELSE IF outcome = "http_error" THEN Some("HTTPError")
                   ELSE None
        handled == OnRequestException(failure[1])
    IN  IF failure = None
           THEN [request |-> params, exc |-> None,
                 ret |-> Some(ServerResponse(params))]
           ELSE [request |-> params, exc |-> handled.exc, ret |-> handled.ret]

\* One line of the request history.
Sent(partition, r, outcome) ==
    [ partition |-> partition, params |-> r.request, outcome |-> outcome,
      rows |-> IF outcome = "ok" THEN ServerResponse(r.request) ELSE <<>>,
      paused |-> slept, headers |-> RequestHeaders(session_headers) ]

\* ------------------------------------------------ tables with columns
\* A DataFrame given to get_summary_stats: its column names in order, its
\* number of rows, and per column the cells top to bottom.  A cell is a
\* string (its characters), a number, or missing (NaN / None).
Str(chars) == [kind |-> "str", s |-> chars, n |-> 0]
Num(v) == [kind |-> "num", s |-> <<>>, n |-> v]
NaN == [kind |-> "nan", s |-> <<>>, n |-> 0]

\* pd.DataFrame(): no column, no row.
EmptyTable == [columns |-> <<>>, nrows |-> 0, col |-> <<>>]

\* The columns get_summary_stats looks at, lines 167-174.
StatColumns ==
    <<"funding_year", "state", "entity_name", "applicant_type", "total_commitment">>

\* The cell values the model draws for each column.
CellValues(c) ==
    IF c = "funding_year" THEN <<Num(2024), Num(2023)>>
    ELSE IF c = "state" THEN <<Str(<<"C", "A">>), Str(<<"N", "Y">>)>>
    ELSE IF c = "entity_name" THEN <<Str(<<"A">>), Str(<<"B">>)>>
    ELSE IF c = "applicant_type" THEN <<Str(<<"S">>), Str(<<"L">>)>>
    ELSE <<Str(<<"1", "0">>), Str(<<"2", "5">>), Str(<<"N", "/", "A">>), NaN, Num(7)>>

\* A column of n cells, or None for a column the table does not have.  A
\* category column holds one value throughout, or a second value in its
\* first row; the total_commitment column holds any of its values anywhere.
ColumnChoices(c, n) ==
    LET v == CellValues(c)
    IN  {None} \cup
        IF c = "total_commitment"
           THEN {Some(cells) : cells \in [1 .. n -> {v[i] : i \in 1 .. Len(v)}]}
           ELSE { Some([i \in 1 .. n |-> v[1]]),
                  Some([i \in 1 .. n |-> IF i = 1 THEN v[2] ELSE v[1]]) }

\* The table with the chosen columns (choice[i] belongs to StatColumns[i]).
MkTable(n, choice) ==
    LET present == {i \in 1 .. Len(StatColumns) : choice[i] # None}
        names   == {StatColumns[i] : i \in present}
        F[k \in 0 .. Len(StatColumns)] ==
            IF k = 0 THEN <<>>
            ELSE IF k \in present THEN Append(F[k - 1], StatColumns[k])
            ELSE F[k - 1]
    IN  [ columns |-> F[Len(StatColumns)],
          nrows   |-> n,
          col     |-> [c \in names |->
                         choice[CHOOSE i \in present : StatColumns[i] = c][1]] ]

Tables ==
    UNION { { MkTable(n, <<a, b, c, d, e>>) :
                a \in ColumnChoices(StatColumns[1], n),
                b \in ColumnChoices(StatColumns[2], n),
                c \in ColumnChoices(StatColumns[3], n),
                d \in ColumnChoices(StatColumns[4], n),
                e \in ColumnChoices(StatColumns[5], n) } : n \in 0 .. MaxRows }

HasColumn(t, c) == \E i \in 1 .. Len(t.columns) : t.columns[i] = c

\* Faulty variant: only the column axis is looked at.
IsEmptyNoColumns(t) == t.columns = <<>>

\* DataFrame.empty: some axis has length 0.
IsEmpty(t) == t.nrows = 0 \/ t.columns = <<>>

\* -------------------------------------------------- get_summary_stats
Digits == <<"0", "1", "2", "3", "4", "5", "6", "7", "8", "9">>
IsDigit(ch) == \E d \in 1 .. 10 : Digits[d] = ch
DigitValue(ch) == (CHOOSE d \in 1 .. 10 : Digits[d] = ch) - 1

RECURSIVE IntToChars(_)
\* str() of a natural number: its decimal digits.
IntToChars(v) ==
    IF v < 10 THEN <<Digits[v + 1]>>
    ELSE IntToChars(v \div 10) \o <<Digits[(v % 10) + 1]>>

RECURSIVE DigitsValue(_)
\* The number a string of decimal digits denotes.
DigitsValue(chars) ==
    IF chars = <<>> THEN 0
    ELSE 10 * DigitsValue(SubSeq(chars, 1, Len(chars) - 1))
         + DigitValue(chars[Len(chars)])

\* pd.to_numeric(..., errors='coerce') on one cell (line 175): a number
\* stays, a string of digits becomes its number, anything else becomes NaN.
ToNumeric(cell) ==
    IF cell.kind = "num" THEN cell
    ELSE IF /\ cell.kind = "str"
            /\ cell.s # <<>>
            /\ \A i \in 1 .. Len(cell.s) : IsDigit(cell.s[i])
         THEN Num(DigitsValue(cell.s))
    ELSE NaN

\* The cells of a column that are not missing.
Present(cells) == {i \in 1 .. Len(cells) : cells[i].kind # "nan"}

\* Faulty variant: the rows are counted, not the distinct values.
NUniqueCountsRows(cells) == Cardinality(Present(cells))

\* Series.nunique(): the number of distinct values, NaN not counted.
NUnique(cells) == Cardinality({cells[i] : i \in Present(cells)})

\* Series.value_counts().to_dict(): value -> number of rows holding it.
ValueCounts(cells) ==
    [v \in {cells[i] : i \in Present(cells)} |->
        Cardinality({i \in Present(cells) : cells[i] = v})]

RECURSIVE SortedNumbers(_)
\* sorted(...) of a set of numbers.
SortedNumbers(S) ==
    IF S = {} THEN <<>>
    ELSE LET m == CHOOSE x \in S : \A y \in S : x <= y
         IN  <<m>> \o SortedNumbers(S \ {m})

RECURSIVE SumUpTo(_, _)
\* Series.sum() over cells 1 .. k: NaN is skipped.
SumUpTo(cells, k) ==
    IF k = 0 THEN 0
    ELSE SumUpTo(cells, k - 1) + (IF cells[k].kind = "num" THEN cells[k].n ELSE 0)

\* Faulty variant: the sum is divided by the number of rows.
MeanOverAllRows(cells) ==
    IF cells = <<>> THEN NaN
    ELSE [kind |-> "ratio", s |-> <<>>, n |-> <<SumUpTo(cells, Len(cells)),
                                              Len(cells)>>]

\* Series.mean(): the sum over the count of the cells that are not NaN, as
\* the fraction <<sum, count>>; NaN when there is no such cell.
Mean(cells) ==
    IF Present(cells) = {} THEN NaN
    ELSE [kind |-> "ratio", s |-> <<>>, n |-> <<SumUpTo(cells, Len(cells)),
                                              Cardinality(Present(cells))>>]

\* Lines 165-171: the five entries every non-empty table gets.
BaseStats(t) ==
    [ total_records   |-> t.nrows,
      funding_years   |-> IF HasColumn(t, "funding_year")
                             THEN SortedNumbers({t.col["funding_year"][i].n :
                                                   i \in 1 .. t.nrows})
                             ELSE <<>>,
      states          |-> IF HasColumn(t, "state")
                             THEN NUnique(t.col["state"]) ELSE 0,
      unique_entities |-> IF HasColumn(t, "entity_name")
                             THEN NUnique(t.col["entity_name"]) ELSE 0,
      applicant_types |-> IF HasColumn(t, "applicant_type")
                             THEN ValueCounts(t.col["applicant_type"]) ELSE <<>> ]

\* Line 175: df['total_commitment'] = pd.to_numeric(...), an assignment into
\* the DataFrame the caller passed.
CoerceCommitment(t) ==
    [t EXCEPT !.col["total_commitment"] = [i \in 1 .. t.nrows |-> ToNumeric(@[i])]]

\* get_summary_stats, lines 152-179: the dictionary returned, and the
\* caller's DataFrame as the call leaves it.
GetSummaryStats(t) ==
    IF IsEmpty(t) THEN [stats |-> <<>>, df |-> t]
    ELSE IF HasColumn(t, "total_commitment")
         THEN LET after == CoerceCommitment(t)
                  cells == after.col["total_commitment"]
              IN  [ stats |-> BaseStats(t)
                              @@ [ total_funding  |-> SumUpTo(cells, Len(cells)),
                                   avg_commitment |-> Mean(cells) ],
                    df |-> after ]
    ELSE [stats |-> BaseStats(t), df |-> t]

\* ------------------------------------------------------ save_data
\* An output path is the sequence of its components, the file name last.
\* The paths the model saves to: a bare file name, and files one and two
\* directories down.
OutputPaths ==
    { <<"out.csv">>, <<"data", "out.csv">>, <<"data", "raw", "out.csv">> }

\* os.path.dirname (line 189): the path without its last component; the
\* empty path '' for a bare file name.
Dirname(path) == SubSeq(path, 1, Len(path) - 1)

\* A directory and the directories above it.
Prefixes(d) == {SubSeq(d, 1, k) : k \in 1 .. Len(d)}

\* How the file system can answer a call that has to create something.
FsOutcomes == {"ok", "denied"}

\* os.makedirs(d, exist_ok=True), line 189: '' is refused with
\* FileNotFoundError; directories that exist are left alone; missing ones
\* are created top down unless the file system refuses.
Makedirs(ds, d, outcome) ==
    IF d = <<>> THEN [exc |-> Some("FileNotFoundError"), dirs |-> ds]
    ELSE IF Prefixes(d) \subseteq ds THEN [exc |-> None, dirs |-> ds]
    ELSE IF outcome = "denied" THEN [exc |-> Some("PermissionError"), dirs |-> ds]
    ELSE [exc |-> None, dirs |-> ds \cup Prefixes(d)]

\* The text to_csv writes for one cell: a string as it is, a number in
\* decimal, nothing for a missing value.
CellText(cell) ==
    IF cell.kind = "str" THEN cell.s
    ELSE IF cell.kind = "num" THEN IntToChars(cell.n)
    ELSE <<>>

\* df.to_csv(..., index=False), line 190: the header row holds the column
\* names in order, then one row per row of the table.
CsvText(t) ==
    [ header |-> t.columns,
      rows   |-> [k \in 1 .. t.nrows |->
                    [i \in 1 .. Len(t.columns) |-> CellText(t.col[t.columns[i]][k])]] ]

\* df.to_csv(path, index=False), line 190: the file is opened for writing,
\* which needs its directory to exist and the file system to allow it, and
\* then holds the table's text in place of whatever it held.
ToCsv(fl, ds, path, t, outcome) ==
    IF Dirname(path) # <<>> /\ Dirname(path) \notin ds
       THEN [exc |-> Some("FileNotFoundError"), files |-> fl]
    ELSE IF outcome = "denied"
       THEN [exc |-> Some("PermissionError"), files |-> fl]
    ELSE [exc |-> None, files |-> [fl EXCEPT ![path] = Some(CsvText(t))]]

\* Faulty variant: a failure of os.makedirs is ignored.
OnMakedirsErrorGoesOn(e) == [pc |-> "to_csv", exc |-> None]

\* save_data has no try: an exception of os.makedirs leaves the call
\* (line 189) and line 190 is not reached.
OnMakedirsError(e) == [pc |-> "raised", exc |-> Some(e)]

\* The tables the model saves: at most one row and one column.
SaveTables == {t \in Tables : t.nrows <= 1 /\ Len(t.columns) <= 1}

\* The file systems save_data can find: the directories closed under
\* "parent of", every file inside a directory that exists.
FileSystems ==
    { fs \in [ dirs  : {{}, {<<"data">>}, {<<"data">>, <<"data", "raw">>}},
               files : [OutputPaths -> {None, Some(CsvText(EmptyTable))}] ] :
        \A p \in OutputPaths :
            fs.files[p] # None => Prefixes(Dirname(p)) \subseteq fs.dirs }

\* ---------------------------------------------------------------- Init
Init ==
    /\ dirs = {}
    /\ files = [p \in OutputPaths |-> None]
    /\ files0 = files
    /\ fsops = <<>>
    /\ app_token = None
    /\ session_headers = SessionHeaders(app_token)
    /\ data \in [Years -> 0 .. MaxRecs]
    /\ pc = "idle"
    /\ args = [op |-> "none"]
    /\ year = 0
    /\ offset = 0
    /\ all_data = <<>>
    /\ result = None
    /\ exc = None
    /\ requests = <<>>
    /\ slept = FALSE
    /\ df = EmptyTable
    /\ df0 = EmptyTable
    /\ stats = <<>>

\* ------------------------------------------ a direct call of fetch_data
CallFetchData ==
    /\ pc = "idle"
    /\ \E funding_year \in {None} \cup {Some(y) : y \in Years},
          state \in {None, Some("CA")},
          applicant_type \in {None, Some("Library")},
          limit \in 1 .. MaxBatch,
          off \in 0 .. MaxRecs,
          outcome \in Outcomes :
          LET r == FetchData(funding_year, state, applicant_type, limit, off, outcome)
          IN  /\ args' = [ op |-> "fetch_data", funding_year |-> funding_year,
                           state |-> state, applicant_type |-> applicant_type,
                           limit |-> limit, offset |-> off ]
              /\ requests' = Append(requests, Sent(funding_year, r, outcome))
              /\ result' = r.ret
              /\ exc' = r.exc
              /\ pc' = IF r.exc = None THEN "returned" ELSE "raised"
    /\ slept' = FALSE
    /\ UNCHANGED <<data, year, offset, all_data, statsVars, fsVars, objVars>>

\* ------------------------------------------------------ fetch_all_years
\* Faulty variants of the page loop's decision: one goes on after a short page,
\* one goes on after an empty page.
AfterBatchIgnoresShortPage(df_batch, batch_size) ==
    IF df_batch = <<>> THEN "break" ELSE "append_continue"

AfterBatchGoesOnWhenEmpty(df_batch, batch_size) ==
    IF df_batch = <<>> THEN "append_continue"
    ELSE IF Len(df_batch) < batch_size THEN "append_break"
    ELSE "append_continue"

\* Faulty variant: a page that is exactly full ends the year's loop as well.
AfterBatchStopsAtFullPage(df_batch, batch_size) ==
    IF df_batch = <<>> THEN "break"
    ELSE IF Len(df_batch) <= batch_size THEN "append_break"
    ELSE "append_continue"

\* Lines 132-142: an empty page ends the year's loop; any other page is
\* appended, and a page shorter than batch_size ends the loop after that.
AfterBatch(df_batch, batch_size) ==
    IF df_batch = <<>> THEN "break"
    ELSE IF Len(df_batch) < batch_size THEN "append_break"
    ELSE "append_continue"

\* Faulty variant: the next page starts one record too far.
NextOffsetSkipsOne(off, batch_size) == off + batch_size + 1

\* offset += batch_size, line 141.
NextOffset(off, batch_size) == off + batch_size

\* Faulty variant: the new page is put in front of the pages collected so far.
AppendBatchInFront(pages, df_batch) == <<df_batch>> \o pages

\* all_data.append(df_batch), line 135.
AppendBatch(pages, df_batch) == Append(pages, df_batch)

\* Faulty variants of what fetch_all_years does with an exception of fetch_data: ask
\* again, or hand the pages collected so far to the caller.
OnFetchErrorRetry(e, pages) == [pc |-> "fetch", exc |-> None, result |-> None]

OnFetchErrorPartial(e, pages) ==
    [pc |-> "returned", exc |-> None, result |-> Some(Flatten(pages))]

\* Lines 124-130 stand in no try block: an exception of fetch_data leaves
\* fetch_all_years at once, and the local all_data is dropped with its frame.
OnFetchError(e, pages) == [pc |-> "raised", exc |-> Some(e), result |-> None]

\* for year in range(start_year, end_year + 1), line 119: the next value.
NextYear(y) == y + 1

\* fetch_all_years is entered: all_data = [] (line 117), the range starts.
\* The runs are drawn with both string filters given; the filters only pass
\* through to fetch_data, whose own call draws every combination.
CallFetchAllYears ==
    /\ pc = "idle"
    /\ \E start_year \in Years, end_year \in Years,
          filters \in {<<Some("CA"), Some("Library")>>},
          batch_size \in 1 .. MaxBatch :
          LET state == filters[1]
              applicant_type == filters[2]
          IN
          /\ args' = [ op |-> "fetch_all_years", start_year |-> start_year,
                       end_year |-> end_year, state |-> state,
                       applicant_type |-> applicant_type,
                       batch_size |-> batch_size ]
          /\ year' = start_year
    /\ all_data' = <<>>
    /\ pc' = "for"
    /\ UNCHANGED <<data, offset, result, exc, requests, slept, statsVars, fsVars, objVars>>

\* Line 119-121: the range holds another year; offset = 0.
ForYear ==
    /\ pc = "for"
    /\ year <= args.end_year
    /\ offset' = 0
    /\ pc' = "fetch"
    /\ UNCHANGED <<data, args, year, all_data, result, exc, requests, slept, statsVars, fsVars, objVars>>

\* Lines 124-141: one turn of `while True`, from the call of fetch_data to
\* the break or to the new offset, the HTTP call ending as `outcome` says.
FetchBatchWith(outcome) ==
    /\ pc = "fetch"
    /\    LET r == FetchData(Some(year), args.state, args.applicant_type,
                             args.batch_size, offset, outcome)
              after == AfterBatch(r.ret[1], args.batch_size)
              err == OnFetchError(r.exc[1], all_data)
          IN  /\ requests' = Append(requests, Sent(Some(year), r, outcome))
              /\ IF r.exc # None
                    THEN /\ pc' = err.pc
                         /\ exc' = err.exc
                         /\ result' = err.result
                         /\ UNCHANGED <<year, offset, all_data>>
                    ELSE /\ all_data' = IF after = "break" THEN all_data
                                        ELSE AppendBatch(all_data, r.ret[1])
                         /\ IF after = "append_continue"
                               THEN /\ offset' = NextOffset(offset, args.batch_size)
                                    /\ pc' = "sleep"
                                    /\ year' = year
                               ELSE /\ year' = NextYear(year)
                                    /\ pc' = "for"
                                    /\ offset' = offset
                         /\ UNCHANGED <<result, exc>>
    /\ slept' = FALSE
    /\ UNCHANGED <<data, args, statsVars, fsVars, objVars>>

\* One turn of `while True`, however the HTTP call ends.
FetchBatch == \E outcome \in Outcomes : FetchBatchWith(outcome)

\* time.sleep(0.5), line 142, then back to the head of `while True`.
Sleep ==
    /\ pc = "sleep"
    /\ slept' = TRUE
    /\ pc' = "fetch"
    /\ UNCHANGED <<data, args, year, offset, all_data, result, exc, requests, statsVars, fsVars, objVars>>

\* Lines 144-150: the range is exhausted; pd.concat of the pages, or an
\* empty DataFrame when there is none.
Return ==
    /\ pc = "for"
    /\ year > args.end_year
    /\ result' = IF all_data # <<>> THEN Some(Flatten(all_data)) ELSE Some(<<>>)
    /\ pc' = "returned"
    /\ UNCHANGED <<data, args, year, offset, all_data, exc, requests, slept, statsVars, fsVars, objVars>>

\* A run of fetch_all_years.
Next ==
    \/ CallFetchAllYears
    \/ ForYear
    \/ FetchBatch
    \/ Sleep
    \/ Return

Spec == Init /\ [][Next]_vars

\* The datasets of the runs checked for termination: a year holds no
\* record, as many as the API gives at most in one answer, or MaxRecs.
InitFair ==
    /\ Init
    /\ \A y \in Years : data[y] \in {0, ServerMax, MaxRecs}

\* The same run with the interpreter going on: the call is made, and no
\* statement of fetch_all_years stays pending forever.  A request in
\* particular does not: if nothing else ends it, the timeout of 30 s does
\* (line 83), which is what the weak fairness of the timed-out turn says
\* (it is enabled exactly while a request is pending, so it only forbids a
\* request that never ends; it does not make any request fail).
SpecFair ==
    /\ InitFair
    /\ [][Next]_vars
    /\ WF_vars(CallFetchAllYears)
    /\ WF_vars(ForYear)
    /\ WF_vars(FetchBatchWith("network_error"))
    /\ WF_vars(Sleep)
    /\ WF_vars(Return)

\* A single call of fetch_data.
NextFetch == CallFetchData

SpecFetch == Init /\ [][NextFetch]_vars

\* ------------------------------ a collector constructed with any token
InitToken ==
    /\ data \in [Years -> {0, MaxRecs}]
    /\ pc = "idle"
    /\ args = [op |-> "none"]
    /\ year = 0
    /\ offset = 0
    /\ all_data = <<>>
    /\ result = None
    /\ exc = None
    /\ requests = <<>>
    /\ slept = FALSE
    /\ df = EmptyTable
    /\ df0 = EmptyTable
    /\ stats = <<>>
    /\ dirs = {}
    /\ files = [p \in OutputPaths |-> None]
    /\ files0 = files
    /\ fsops = <<>>
    /\ app_token \in Tokens
    /\ session_headers = SessionHeaders(app_token)

NextToken ==
    \/ CallFetchData
    \/ CallFetchAllYears
    \/ ForYear
    \/ FetchBatch
    \/ Sleep
    \/ Return

SpecToken == InitToken /\ [][NextToken]_vars

\* --------------------------------------- a call of get_summary_stats
InitStats ==
    /\ dirs = {}
    /\ files = [p \in OutputPaths |-> None]
    /\ files0 = files
    /\ fsops = <<>>
    /\ app_token = None
    /\ session_headers = SessionHeaders(app_token)
    /\ data = [y \in Years |-> 0]
    /\ pc = "idle"
    /\ args = [op |-> "none"]
    /\ year = 0
    /\ offset = 0
    /\ all_data = <<>>
    /\ result = None
    /\ exc = None
    /\ requests = <<>>
    /\ slept = FALSE
    /\ df \in Tables
    /\ df0 = df
    /\ stats = <<>>

CallGetSummaryStats ==
    /\ pc = "idle"
    /\ LET r == GetSummaryStats(df)
       IN  /\ stats' = r.stats
           /\ df' = r.df
    /\ df0' = df
    /\ args' = [op |-> "get_summary_stats"]
    /\ pc' = "summarized"
    /\ UNCHANGED <<fetchVars, fsVars, objVars>>

NextStats == CallGetSummaryStats

SpecStats == InitStats /\ [][NextStats]_vars

\* ---------------------------------------------- a call of save_data
InitSave ==
    /\ data = [y \in Years |-> 0]
    /\ pc = "idle"
    /\ args = [op |-> "none"]
    /\ year = 0
    /\ offset = 0
    /\ all_data = <<>>
    /\ result = None
    /\ exc = None
    /\ requests = <<>>
    /\ slept = FALSE
    /\ df \in SaveTables
    /\ df0 = df
    /\ stats = <<>>
    /\ \E fs \in FileSystems : dirs = fs.dirs /\ files = fs.files
    /\ files0 = files
    /\ fsops = <<>>
    /\ app_token = None
    /\ session_headers = SessionHeaders(app_token)

\* save_data(df, output_path) is called.
CallSaveData ==
    /\ pc = "idle"
    /\ \E output_path \in OutputPaths :
          args' = [op |-> "save_data", output_path |-> output_path]
    /\ files0' = files
    /\ pc' = "makedirs"
    /\ UNCHANGED <<fetchVars, statsVars, dirs, files, fsops, objVars>>

\* Line 189: os.makedirs(os.path.dirname(output_path), exist_ok=True).
SaveMakedirs ==
    /\ pc = "makedirs"
    /\ \E outcome \in FsOutcomes :
          LET d == Dirname(args.output_path)
              r == Makedirs(dirs, d, outcome)
          IN  /\ dirs' = r.dirs
              /\ fsops' = Append(fsops, [ op |-> "makedirs", path |-> d,
                                          exc |-> r.exc,
                                          created |-> r.dirs \ dirs ])
              /\ IF r.exc = None
                    THEN pc' = "to_csv" /\ exc' = exc
                    ELSE LET h == OnMakedirsError(r.exc[1])
                         IN  pc' = h.pc /\ exc' = h.exc
    /\ UNCHANGED <<data, year, offset, all_data, result, requests, slept,
                   args, statsVars, files, files0, objVars>>

\* Lines 190-191: df.to_csv(output_path, index=False), the log line, return.
SaveToCsv ==
    /\ pc = "to_csv"
    /\ \E outcome \in FsOutcomes :
          LET r == ToCsv(files, dirs, args.output_path, df, outcome)
          IN  /\ files' = r.files
              /\ fsops' = Append(fsops, [ op |-> "to_csv", path |-> args.output_path,
                                          exc |-> r.exc, created |-> {} ])
              /\ IF r.exc = None
                    THEN pc' = "saved" /\ exc' = exc
                    ELSE pc' = "raised" /\ exc' = r.exc
    /\ UNCHANGED <<data, year, offset, all_data, result, requests, slept,
                   args, statsVars, dirs, files0, objVars>>

NextSave ==
    \/ CallSaveData
    \/ SaveMakedirs
    \/ SaveToCsv

SpecSave == InitSave /\ [][NextSave]_vars

\* ===================================================== properties
\* Reading the request history of a fetch_all_years run.
InFetchAll == args.op = "fetch_all_years"

\* The requests before the i-th that asked for the same partition (year).
EarlierOf(i) ==
    {j \in 1 .. i - 1 : requests[j].partition = requests[i].partition}

RECURSIVE ReceivedUpTo(_, _)
\* The number of records received for partition p in requests 1 .. n.
ReceivedUpTo(n, p) ==
    IF n = 0 THEN 0
    ELSE ReceivedUpTo(n - 1, p)
         + (IF requests[n].partition = p THEN Len(requests[n].rows) ELSE 0)

RECURSIVE PagesUpTo(_)
\* The non-empty pages received in requests 1 .. n, in request order.
PagesUpTo(n) ==
    IF n = 0 THEN <<>>
    ELSE PagesUpTo(n - 1)
         \o (IF requests[n].rows # <<>> THEN <<requests[n].rows>> ELSE <<>>)

\* The positions of table t that hold record rec.
Places(t, rec) == {i \in 1 .. Len(t) : t[i] = rec}

\* C1: within a partition the offsets asked for are 0, batch_size,
\* 2*batch_size, ...; no request asks for an offset beyond the records
\* already received for its partition; and no request follows, in the same
\* partition, a response shorter than batch_size.
C1_StopsAtShortPage ==
    InFetchAll =>
        \A i \in 1 .. Len(requests) :
            LET r == requests[i]
            IN  /\ r.params.offset = Cardinality(EarlierOf(i)) * args.batch_size
                /\ r.params.offset <= ReceivedUpTo(i - 1, r.partition)
                /\ \A j \in EarlierOf(i) :
                       Len(requests[j].rows) >= args.batch_size

\* A finished run in which a partition gave a full page and then a shorter,
\* non-empty one, and a later partition was asked after it.
C1_Witness ==
    /\ InFetchAll
    /\ pc = "returned"
    /\ \E i \in 2 .. Len(requests) - 1 :
          /\ requests[i].params.offset > 0
          /\ requests[i].rows # <<>>
          /\ Len(requests[i].rows) < args.batch_size
          /\ requests[i + 1].partition # requests[i].partition

\* The hypothesis of C2: every request of the run was answered with the
\* records of its own partition at positions [offset, offset + limit).
AnsweredByPartition ==
    \A i \in 1 .. Len(requests) :
        LET r    == requests[i]
            rows == Rows(r.partition[1])
        IN  /\ r.outcome = "ok"
            /\ r.rows = SubSeq(rows, r.params.offset + 1,
                               Min(r.params.offset + r.params.limit, Len(rows)))

\* C2: when the server answers every request with the asked slice of the
\* asked partition and batch_size is at most the server's maximum, the table
\* fetch_all_years returns holds every record of every year of the range
\* exactly once, and nothing else.
C2_EveryRecordOnce ==
    ( /\ InFetchAll
      /\ pc = "returned"
      /\ args.batch_size <= ServerMax
      /\ AnsweredByPartition )
    => /\ \A y \in args.start_year .. args.end_year :
              \A k \in 1 .. data[y] :
                  Cardinality(Places(result[1], <<y, k>>)) = 1
       /\ \A i \in 1 .. Len(result[1]) :
              result[1][i][1] \in args.start_year .. args.end_year

\* A returned run over two years that both hold records, one of them on
\* more than one page.
C2_Witness ==
    /\ InFetchAll
    /\ pc = "returned"
    /\ args.batch_size <= ServerMax
    /\ AnsweredByPartition
    /\ args.start_year < args.end_year
    /\ \A y \in args.start_year .. args.end_year : data[y] > 0
    /\ \E y \in args.start_year .. args.end_year : data[y] > args.batch_size

\* C3: at every step the pages accumulated are exactly the non-empty pages
\* received so far, in the order they were asked for, which is ascending
\* year and, within a year, ascending offset; the table returned is their
\* concatenation, rows in the order the server gave them.
C3_PagesInRequestOrder ==
    InFetchAll =>
        /\ all_data = PagesUpTo(Len(requests))
        /\ \A i \in 1 .. Len(requests) : \A j \in i + 1 .. Len(requests) :
               \/ requests[i].partition[1] < requests[j].partition[1]
               \/ /\ requests[i].partition = requests[j].partition
                  /\ requests[i].params.offset < requests[j].params.offset
        /\ pc = "returned" => result = Some(Flatten(PagesUpTo(Len(requests))))

\* A returned table made of at least three pages from two partitions.
C3_Witness ==
    /\ InFetchAll
    /\ pc = "returned"
    /\ Len(all_data) >= 3
    /\ \E i, j \in 1 .. Len(requests) :
          /\ requests[i].partition # requests[j].partition
          /\ requests[i].rows # <<>>
          /\ requests[j].rows # <<>>
    /\ Len(result[1]) >= 4

\* C4: when the HTTP call of fetch_data fails, by status or by a network
\* exception, fetch_data raises and returns no table.
C4_FailureRaises ==
    (args.op = "fetch_data" /\ requests[1].outcome # "ok")
    => (pc = "raised" /\ exc # None /\ result = None)

\* A call of fetch_data that met a 4xx/5xx status and raised.
C4_Witness ==
    /\ args.op = "fetch_data"
    /\ requests[1].outcome = "http_error"
    /\ exc = Some("HTTPError")

\* C5: each call of fetch_data issues exactly one request, no other step
\* issues any, and once a request has failed no further request is issued.
C5_OneRequestNoRetry ==
    [][ /\ Len(requests') = Len(requests) + (IF pc = "fetch" THEN 1 ELSE 0)
        /\ (\E i \in 1 .. Len(requests) : requests[i].outcome # "ok")
               => requests' = requests ]_vars

\* A run whose third or later request failed: it stopped there.
C5_Witness ==
    /\ InFetchAll
    /\ Len(requests) >= 3
    /\ requests[Len(requests)].outcome = "network_error"
    /\ pc = "raised"

\* C6: if any page request of a fetch_all_years run failed, the run ends by
\* raising: nothing is returned, the pages collected before are not handed
\* to the caller.
C6_AllOrNothing ==
    (InFetchAll /\ \E i \in 1 .. Len(requests) : requests[i].outcome # "ok")
    => (pc = "raised" /\ exc # None /\ result = None)

\* A run that had collected pages of an earlier partition when a request of
\* a later partition failed.
C6_Witness ==
    /\ InFetchAll
    /\ pc = "raised"
    /\ all_data # <<>>
    /\ requests[1].partition # requests[Len(requests)].partition
    /\ result = None

\* C7 (as claimed): every request of a run but the first is issued after a
\* pause, also the first request of a partition that follows another.
C7_PauseBetweenAllRequests ==
    InFetchAll => \A i \in 2 .. Len(requests) : requests[i].paused

\* The filter expression C8 claims: one clause per filter that was supplied
\* (not None), years bare and strings in single quotes, joined by AND.
ClaimedWhere(a) ==
    LET y == IF a.funding_year # None
                THEN << <<"funding_year", "=", ToString(a.funding_year[1])>> >>
                ELSE <<>>
        s == IF a.state # None
                THEN << <<"state", "=", "'" \o a.state[1] \o "'">> >> ELSE <<>>
        t == IF a.applicant_type # None
                THEN << <<"applicant_type", "=", "'" \o a.applicant_type[1] \o "'">> >>
                ELSE <<>>
        c == y \o s \o t
    IN  IF Len(c) = 1 THEN c[1]
        ELSE IF Len(c) = 2 THEN c[1] \o <<"AND">> \o c[2]
        ELSE c[1] \o <<"AND">> \o c[2] \o <<"AND">> \o c[3]

\* C8 (as claimed): whenever at least one filter is supplied, the request
\* carries a $where holding a clause for every supplied filter.
C8_WhereHasEverySuppliedFilter ==
    ( /\ args.op = "fetch_data"
      /\ \/ args.funding_year # None
         \/ args.state # None
         \/ args.applicant_type # None )
    => requests[1].params.where = Some(ClaimedWhere(args))

\* C9: a partition whose first response is empty gets no second request and
\* adds no page; the run goes on with the next year.
C9_EmptyPartitionOneRequest ==
    InFetchAll =>
        \A i \in 1 .. Len(requests) :
            LET r == requests[i]
            IN  (r.params.offset = 0 /\ r.outcome = "ok" /\ r.rows = <<>>)
                => /\ \A j \in 1 .. Len(requests) :
                          j # i => requests[j].partition # r.partition
                   /\ \A k \in 1 .. Len(all_data) :
                          all_data[k] # <<>> /\ all_data[k][1][1] # r.partition[1]
                   /\ IF i < Len(requests)
                         THEN requests[i + 1].partition = Some(r.partition[1] + 1)
                         ELSE year = r.partition[1] + 1
                              /\ pc \in {"for", "fetch", "returned"}

\* A returned run whose first partition was empty and whose next partition
\* gave records.
C9_Witness ==
    /\ InFetchAll
    /\ pc = "returned"
    /\ Len(requests) >= 2
    /\ requests[1].outcome = "ok"
    /\ requests[1].rows = <<>>
    /\ requests[2].rows # <<>>
    /\ result # Some(<<>>)

\* Two cells hold the same value: the same cell, or a string and the number
\* it spells, or both missing.
SameValue(a, b) ==
    \/ a = b
    \/ a.kind = "str" /\ b.kind = "num" /\ ToNumeric(a) = b
    \/ a.kind = "nan" /\ b.kind = "nan"

\* C10 (as claimed): after get_summary_stats the table passed in has the
\* columns it had and, in every cell, the value it had.
C10_TableUnchanged ==
    pc = "summarized" =>
        /\ df.columns = df0.columns
        /\ df.nrows = df0.nrows
        /\ \A i \in 1 .. Len(df0.columns) : \A k \in 1 .. df0.nrows :
               SameValue(df0.col[df0.columns[i]][k], df.col[df0.columns[i]][k])

\* Reading a finished call of get_summary_stats on a non-empty table.
Summarized == pc = "summarized" /\ ~(df0.nrows = 0 \/ df0.columns = <<>>)

HadColumn(c) == \E i \in 1 .. Len(df0.columns) : df0.columns[i] = c

\* The values a column of the table passed in holds.
ValuesOf(c) == {df0.col[c][k] : k \in 1 .. df0.nrows}

\* The entry of the result that reports on a category column.
StatKey(c) ==
    IF c = "funding_year" THEN "funding_years"
    ELSE IF c = "state" THEN "states"
    ELSE IF c = "entity_name" THEN "unique_entities"
    ELSE "applicant_types"

CategoryColumns == {"funding_year", "state", "entity_name", "applicant_type"}

\* C11 (as claimed): for a non-empty table the entry of every absent
\* category column is left out of the result.
C11_AbsentColumnOmitted ==
    Summarized =>
        \A c \in CategoryColumns : ~HadColumn(c) => StatKey(c) \notin DOMAIN stats

\* C11 (amended): for a non-empty table the result holds an entry for every
\* category column: its statistic when the column is present (the distinct
\* years in ascending order, the number of distinct states and of distinct
\* entity names, the row count per applicant type), and an empty or zero
\* default when the column is absent ([], 0, 0, {}); no error is raised.
C11_AbsentColumnGetsDefault ==
    Summarized =>
        /\ exc = None
        /\ \A c \in CategoryColumns : StatKey(c) \in DOMAIN stats
        /\ stats.total_records = df0.nrows
        /\ IF HadColumn("funding_year")
              THEN LET ys == stats.funding_years
                   IN  /\ {ys[i] : i \in 1 .. Len(ys)}
                             = {v.n : v \in ValuesOf("funding_year")}
                       /\ \A i \in 1 .. Len(ys) - 1 : ys[i] < ys[i + 1]
              ELSE stats.funding_years = <<>>
        /\ stats.states = IF HadColumn("state")
                             THEN Cardinality(ValuesOf("state")) ELSE 0
        /\ stats.unique_entities = IF HadColumn("entity_name")
                                      THEN Cardinality(ValuesOf("entity_name"))
                                      ELSE 0
        /\ IF HadColumn("applicant_type")
              THEN /\ DOMAIN stats.applicant_types = ValuesOf("applicant_type")
                   /\ \A v \in ValuesOf("applicant_type") :
                          stats.applicant_types[v] =
                              Cardinality({k \in 1 .. df0.nrows :
                                             df0.col["applicant_type"][k] = v})
              ELSE DOMAIN stats.applicant_types = {}

\* A summary of a table of two rows that lacks the state column and holds
\* two different entity names.
C11_Witness ==
    /\ Summarized
    /\ df0.nrows = 2
    /\ ~HadColumn("state")
    /\ HadColumn("entity_name")
    /\ stats.states = 0
    /\ stats.unique_entities = 2

\* The numbers a cell of the table passed in stands for: the cell's own
\* number, or the number whose decimal writing the cell's text is.
NumbersOf(cell) ==
    {v \in 0 .. 99 : \/ cell.kind = "num" /\ cell.n = v
                     \/ cell.kind = "str" /\ cell.s = IntToChars(v)}

\* The rows of total_commitment that stand for a number.
NumericRows ==
    {k \in 1 .. df0.nrows : NumbersOf(df0.col["total_commitment"][k]) # {}}

\* The sum of the numbers of those rows.
NumericSum ==
    LET F[k \in 0 .. df0.nrows] ==
            IF k = 0 THEN 0
            ELSE F[k - 1] + (IF k \in NumericRows
                                THEN CHOOSE v \in NumbersOf(df0.col["total_commitment"][k]) : TRUE
                                ELSE 0)
    IN  F[df0.nrows]

\* C12: for a non-empty table with the total_commitment column, the result
\* holds the sum and the mean of exactly the values that stand for a number
\* (the mean being undefined when there is none), and nothing is raised; for
\* a non-empty table without that column the result holds neither entry.
C12_SumAndMeanOverNumericValues ==
    Summarized =>
        IF HadColumn("total_commitment")
           THEN /\ exc = None
                /\ {"total_funding", "avg_commitment"} \subseteq DOMAIN stats
                /\ stats.total_funding = NumericSum
                /\ IF NumericRows = {}
                      THEN stats.avg_commitment.kind = "nan"
                      ELSE /\ stats.avg_commitment.kind = "ratio"
                           /\ stats.avg_commitment.n
                                = <<NumericSum, Cardinality(NumericRows)>>
           ELSE /\ "total_funding" \notin DOMAIN stats
                /\ "avg_commitment" \notin DOMAIN stats

\* A summary of two rows whose total_commitment holds "25" and "N/A": the
\* sum is 25 and the mean is 25 over one value.
C12_Witness ==
    /\ Summarized
    /\ HadColumn("total_commitment")
    /\ df0.nrows = 2
    /\ df0.col["total_commitment"][1] = Str(<<"2", "5">>)
    /\ df0.col["total_commitment"][2] = Str(<<"N", "/", "A">>)
    /\ stats.total_funding = 25
    /\ stats.avg_commitment.n = <<25, 1>>

\* C13: summarizing a table without rows returns the empty mapping.
C13_EmptyTableEmptyMapping ==
    (pc = "summarized" /\ df0.nrows = 0) => DOMAIN stats = {}

\* A summary of a table that has columns and no row.
C13_Witness ==
    /\ pc = "summarized"
    /\ df0.nrows = 0
    /\ df0.columns # <<>>
    /\ DOMAIN stats = {}

\* Reading the file-system history of a save_data call.
InSave == args.op = "save_data"

MakedirsAt(j) == fsops[j].op = "makedirs"
ToCsvAt(i) == fsops[i].op = "to_csv"

C15_TokenOnEveryRequest ==
    \A i \in 1 .. Len(requests) :
        IF app_token # None /\ app_token[1] # ""
           THEN requests[i].headers = Some(app_token[1])
           ELSE requests[i].headers = None

\* A fetch_all_years run of a collector constructed with "test_token" that
\* has issued two page requests, both carrying the token.
C15_Witness ==
    /\ app_token = Some("test_token")
    /\ InFetchAll
    /\ Len(requests) = 2
    /\ requests[1].headers = Some("test_token")
    /\ requests[2].headers = Some("test_token")

\* The requests issued so far for funding year y.
RequestsFor(y) == {i \in 1 .. Len(requests) : requests[i].partition = Some(y)}

\* The page loop of year y took floor(n / batch_size) + 1 requests.
CountedFor(y) ==
    Cardinality(RequestsFor(y)) = (data[y] \div args.batch_size) + 1

\* C16: a fetch_all_years call comes to an end; when every request was
\* answered, without failure, with the records of its partition at
\* positions [offset, offset + limit), it ends by returning, having issued
\* floor(n / batch_size) + 1 requests for each year of the range, n being the
\* number of records of that year; with start_year > end_year it issues no
\* request and returns the empty table.
C16_TerminatesWithRequestCount ==
    /\ <>(pc \in {"returned", "raised"})
    /\ []((InFetchAll /\ AnsweredByPartition) => pc # "raised")
    /\ []((InFetchAll /\ AnsweredByPartition /\ pc = "returned") =>
              \A y \in args.start_year .. args.end_year : CountedFor(y))
    /\ []((InFetchAll /\ args.start_year > args.end_year) =>
              /\ requests = <<>>
              /\ pc = "returned" => result = Some(<<>>))

\* A returned run, every request answered as asked, over a year whose two
\* records fill one page of two exactly: two requests, the second one
\* answered with the empty page.
C16_Witness ==
    /\ InFetchAll
    /\ pc = "returned"
    /\ AnsweredByPartition
    /\ args.batch_size = 2
    /\ \E y \in args.start_year .. args.end_year :
          /\ data[y] = 2
          /\ Cardinality(RequestsFor(y)) = 2
          /\ \E i \in RequestsFor(y) : requests[i].rows = <<>>

====
